---- MODULE Spec2Model ----
(***************************************************************************)
(* A model of the scaffolder task broker                                   *)
(* (plugins/scaffolder-backend/src/scaffolder/tasks/StorageTaskBroker.ts): *)
(* StorageTaskBroker (dispatch, claim, observe and the dispatch gate) and  *)
(* TaskAgent (emitLog, complete and the heartbeat timer), running over a   *)
(* TaskStore.                                                              *)
(*                                                                         *)
(* JavaScript runs every piece of code between two awaits without          *)
(* interruption, so each action below is one such piece: the synchronous   *)
(* part of a call up to its first await, or the continuation that runs     *)
(* when an awaited promise settles, or one firing of a timer.  A storage   *)
(* call's effect on the store is atomic and is taken at the action that    *)
(* issues the call; its result is kept in the caller's "...Res" variable   *)
(* until the continuation runs.  Calls that are not awaited (the emit of   *)
(* complete) stay in flight as a variable of their own.  Continuations may *)
(* run in any order, as storage calls may settle in any order.             *)
(*                                                                         *)
(* Three specifications share the broker's state and actions:                   *)
(*   SpecBroker   several dispatch() and claim() calls on several brokers  *)
(*                over one store;                                          *)
(*   SpecAgent    one dispatch() and one claim(), then the calls made on   *)
(*                the agent and the firings of its heartbeat;              *)
(*   SpecObserve  one dispatch() and one claim(), the calls made on the    *)
(*                agent, and one subscription made by observe().           *)
(* A fourth specification, SpecTraverse, models traverseCatalog            *)
(* (packages/catalog-client/src/traversal/traverseCatalog.ts) over the     *)
(* same kind of steps: the nodes of a layer are async functions started    *)
(* one after the other, whose continuations run in any order.              *)
(* A fifth, SpecHeartbeat, starts from a TaskAgent constructed with a      *)
(* state that may lack its run id, and follows its timer and its calls.    *)
(* The store is the TaskStore contract: its operations are atomic, and     *)
(* when storeFaulty holds any of its calls may reject and change nothing.  *)
(***************************************************************************)
EXTENDS Integers, Sequences, FiniteSets, TLC

\* ---------------------------------------------------------------- bounds
NumDispatch == 2     \* dispatch() calls made in a behaviour
NumClaim == 2        \* claim() calls made in a behaviour
NumBrokers == 2      \* StorageTaskBroker instances over the one store
MaxEmit == 2         \* emitLog() calls made on an agent
MaxComplete == 2     \* complete() calls made on an agent
MaxHeartbeats == 2   \* heartbeat firings counted per agent
MaxNames == 2        \* getWorkspaceName() calls made on an agent
NumNodes == 3        \* entity refs of the catalog that is traversed
MaxOut == 2          \* visit() requests a follower makes for one node
MaxInitial == 2      \* entity refs in the initial set of a traversal

Dispatchers == 1..NumDispatch
Claimers == 1..NumClaim
Brokers == 1..NumBrokers
Nodes == 1..NumNodes
\* The TaskSpec each dispatch() call is given: one of its own per call.
TaskSpecOf(d) == d

\* Results of a storage call, beside the value it returns.
Failed == -1         \* the promise rejected
Empty == 0           \* claimTask found no task; also "no value yet"
NoAgent == [taskId |-> 0, runId |-> 0, spec |-> 0]

\* The callback given to observe(): one that never throws, one that may
\* throw when it is given a batch, one that may throw on any invocation
\* (also when it is given the error it threw).
CallbackModes == {"neverThrows", "mayThrowOnBatch", "mayThrowAlways"}

VARIABLES
  \* the TaskStore
  tasks,             \* Seq of DbTaskRow; a row's id is its index
  events,            \* Seq of DbTaskEventRow; a row's id is its index
  storeFaulty,       \* whether storage calls of this store may reject
  \* StorageTaskBroker
  deferredDispatch,  \* [Brokers -> Nat]: the deferred each broker holds now
  resolved,          \* [Brokers -> SUBSET Nat]: its deferreds resolved so far
  \* dispatch() calls
  dPc, dBroker, dRes,
  \* claim() calls
  cPc, cBroker, cRes, cGate,
  cAttempts,         \* per claim() call, the claimTask attempts it has made
  cSince,            \* per claim() call, the signals its broker had made at the call
  \* TaskAgent, one per claim() call that returned
  agent, heartbeatInterval,
  \* emitLog() and complete() calls on an agent, and its heartbeat
  aPc,               \* "ready", or the storage call the caller awaits
  aRes,              \* how that storage call settled: "ok" or "error"
  calls,             \* per agent, the calls made on it, the last one current
  floating,          \* per agent, the emits complete() issued and left unawaited
  hbWrites,          \* per agent, the heartbeat writes its timer issued
  hbErrors,          \* per agent, the firings of its timer that raised an error
  workspaceNames,    \* per agent, what its getWorkspaceName() calls returned
  \* one subscription made by observe()
  subPc, subOpts, cancelled, after, subRes, subErr,
  invocations,       \* the callback invocations made, in order
  cbMode,            \* which invocations of this observer's callback may throw
  \* one traverseCatalog() call
  follower,          \* [Nodes -> Seq(Nodes)]: the visit() requests of `follow`
  visitedNodes,      \* the Set of entity refs
  nextLayer,         \* the array of InternalNode
  currentLayer,      \* the layer in work: per node, where its function is
  nodeVisits,        \* [Nodes -> Nat]: collect.visitNode calls per entity ref
  edgeVisits,        \* [Nodes \X Nodes -> Nat]: collect.visitEdge calls per pair
  visitRequests,     \* [Nodes \X Nodes -> Nat]: visit() requests per pair
  travPc             \* "idle", "loop" or "returned"

storeVars == <<tasks, events, storeFaulty>>
gateVars == <<deferredDispatch, resolved>>
dispatchVars == <<dPc, dBroker, dRes>>
claimVars == <<cPc, cBroker, cRes, cGate, cAttempts, cSince>>
agentVars == <<agent, heartbeatInterval>>
runVars == <<aPc, aRes, calls, floating, hbWrites, hbErrors,
            workspaceNames>>
subVars == <<subPc, subOpts, cancelled, after, subRes, subErr, invocations,
             cbMode>>
travVars == <<follower, visitedNodes, nextLayer, currentLayer, nodeVisits,
              edgeVisits, visitRequests, travPc>>
brokerVars == <<storeVars, gateVars, dispatchVars, claimVars, agentVars,
                runVars, subVars>>
vars == <<brokerVars, travVars>>

\* ------------------------------------------------------------ the store
\* The rows of `tasks` a claimTask may take.
OpenTasks == {t \in 1..Len(tasks) : tasks[t].status = "open"}

\* A run id no row carries yet.
FreshRunId == 1 + Cardinality({t \in 1..Len(tasks) : tasks[t].runId # 0})

\* createTask: a new row, status open, no run id.
StoreCreateTask(spec) ==
  Append(tasks, [spec |-> spec, status |-> "open", runId |-> 0,
                 lastHeartbeat |-> FALSE, retryCount |-> 0])

\* claimTask on row t: open -> processing with a fresh run id, in one step.
StoreClaimTask(t) ==
  [tasks EXCEPT ![t].status = "processing", ![t].runId = FreshRunId]

\* setStatus(runId, status): the row of that run takes the status; with no
\* run id given, no row is that of the run.
StoreSetStatus(runId, status) ==
  [t \in DOMAIN tasks |->
     IF runId # 0 /\ tasks[t].runId = runId THEN [tasks[t] EXCEPT !.status = status]
                               ELSE tasks[t]]

\* heartbeat(runId): the row of that run takes a new lastHeartbeat.
StoreHeartbeat(runId) ==
  [t \in DOMAIN tasks |->
     IF tasks[t].runId = runId THEN [tasks[t] EXCEPT !.lastHeartbeat = TRUE]
                               ELSE tasks[t]]

\* emit: a new event row, whose id is the next sequence number.
StoreEmit(taskId, runId, type, body) ==
  Append(events, [taskId |-> taskId, runId |-> runId, type |-> type,
                  body |-> body])

\* getEvents({taskId, after}): the ids of the task's events above `after`,
\* ascending.
StoreGetEvents(taskId, cursor) ==
  SelectSeq([i \in 1..Len(events) |-> i],
            LAMBDA i : events[i].taskId = taskId /\ i > cursor)

\* ---------------------------------------------------------- the gate
\* A signal that resolves the deferred held now and goes on holding it.
SignalDispatchKeepsGate(b) ==
  /\ resolved' = [resolved EXCEPT ![b] = @ \cup {deferredDispatch[b]}]
  /\ deferredDispatch' = deferredDispatch

\* signalDispatch: resolve the deferred held now, then hold a new one.
SignalDispatch(b) ==
  /\ resolved' = [resolved EXCEPT ![b] = @ \cup {deferredDispatch[b]}]
  /\ deferredDispatch' = [deferredDispatch EXCEPT ![b] = @ + 1]

\* ------------------------------------------------------------- dispatch
\* dispatch(spec) on broker b, up to `await this.storage.createTask(spec)`.
\* The calls are numbered in the order they are made.
DispatchCall(d, b, spec) ==
  /\ dPc[d] = "idle"
  /\ \A e \in Dispatchers : e < d => dPc[e] # "idle"
  /\ dPc' = [dPc EXCEPT ![d] = "createTask"]
  /\ dBroker' = [dBroker EXCEPT ![d] = b]
  /\ \/ /\ tasks' = StoreCreateTask(spec)
        /\ dRes' = [dRes EXCEPT ![d] = Len(tasks) + 1]
     \/ /\ storeFaulty
        /\ tasks' = tasks
        /\ dRes' = [dRes EXCEPT ![d] = Failed]
  /\ UNCHANGED <<events, storeFaulty, gateVars, claimVars, agentVars, runVars,
                 subVars,
                 travVars>>

\* A dispatch that signals the gate whether createTask succeeded or not.
DispatchResumeSignalsAlways(d) ==
  /\ dPc[d] = "createTask"
  /\ dPc' = [dPc EXCEPT ![d] = IF dRes[d] = Failed THEN "threw" ELSE "returned"]
  /\ SignalDispatch(dBroker[d])
  /\ UNCHANGED <<storeVars, dBroker, dRes, claimVars, agentVars, runVars,
                 subVars,
                 travVars>>

\* The continuation of dispatch: signalDispatch() and return {taskId}; a
\* rejected createTask is thrown to the caller before the gate is touched.
DispatchResume(d) ==
  /\ dPc[d] = "createTask"
  /\ IF dRes[d] = Failed
       THEN /\ dPc' = [dPc EXCEPT ![d] = "threw"]
            /\ UNCHANGED gateVars
       ELSE /\ dPc' = [dPc EXCEPT ![d] = "returned"]
            /\ SignalDispatch(dBroker[d])
  /\ UNCHANGED <<storeVars, dBroker, dRes, claimVars, agentVars, runVars,
                 subVars,
                 travVars>>

\* ---------------------------------------------------------------- claim
\* `await this.storage.claimTask()` of claim() call c: the store takes an
\* open row if it has one, and the call then waits for its continuation.
ClaimAttempt(c) ==
  /\ cPc' = [cPc EXCEPT ![c] = "claimTask"]
  /\ cAttempts' = [cAttempts EXCEPT ![c] = @ + 1]
  /\ \/ \E t \in OpenTasks :
          /\ tasks' = StoreClaimTask(t)
          /\ cRes' = [cRes EXCEPT ![c] = t]
     \/ /\ OpenTasks = {}
        /\ tasks' = tasks
        /\ cRes' = [cRes EXCEPT ![c] = Empty]
     \/ /\ storeFaulty
        /\ tasks' = tasks
        /\ cRes' = [cRes EXCEPT ![c] = Failed]

\* claim() on broker b, up to the first claimTask.  The calls are numbered
\* in the order they are made.
ClaimCall(c, b) ==
  /\ cPc[c] = "idle"
  /\ \A e \in Claimers : e < c => cPc[e] # "idle"
  /\ cBroker' = [cBroker EXCEPT ![c] = b]
  /\ cSince' = [cSince EXCEPT ![c] = deferredDispatch[b]]
  /\ ClaimAttempt(c)
  /\ UNCHANGED <<events, storeFaulty, gateVars, dispatchVars, cGate, agentVars,
                 runVars, subVars,
                 travVars>>

\* TaskAgent.create(state, storage): the constructor, then start(), which
\* arms the heartbeat interval.
TaskAgentCreate(c, t) ==
  /\ agent' = [agent EXCEPT ![c] =
       [taskId |-> t, runId |-> tasks[t].runId, spec |-> tasks[t].spec]]
  /\ heartbeatInterval' = [heartbeatInterval EXCEPT ![c] = "armed"]

\* A claim() that takes a rejected claimTask for an empty one, and waits.
ClaimResumeSwallows(c) ==
  /\ cPc[c] = "claimTask"
  /\ IF cRes[c] # Failed /\ cRes[c] # Empty
       THEN /\ cPc' = [cPc EXCEPT ![c] = "returned"]
            /\ TaskAgentCreate(c, cRes[c])
            /\ UNCHANGED cGate
       ELSE /\ cPc' = [cPc EXCEPT ![c] = "waitForDispatch"]
            /\ cGate' = [cGate EXCEPT ![c] = deferredDispatch[cBroker[c]]]
            /\ UNCHANGED agentVars
  /\ UNCHANGED <<storeVars, gateVars, dispatchVars, cBroker, cRes, cAttempts,
                 cSince, runVars, subVars,
                 travVars>>

\* The continuation of claimTask: return an agent for the row, or read the
\* gate (waitForDispatch) and wait on it; a rejection is thrown.
ClaimResume(c) ==
  /\ cPc[c] = "claimTask"
  /\ IF cRes[c] = Failed
       THEN /\ cPc' = [cPc EXCEPT ![c] = "threw"]
            /\ UNCHANGED <<cGate, agentVars>>
       ELSE IF cRes[c] # Empty
       THEN /\ cPc' = [cPc EXCEPT ![c] = "returned"]
            /\ TaskAgentCreate(c, cRes[c])
            /\ UNCHANGED cGate
       ELSE /\ cPc' = [cPc EXCEPT ![c] = "waitForDispatch"]
            /\ cGate' = [cGate EXCEPT ![c] = deferredDispatch[cBroker[c]]]
            /\ UNCHANGED agentVars
  /\ UNCHANGED <<storeVars, gateVars, dispatchVars, cBroker, cRes, cAttempts,
                 cSince, runVars, subVars,
                 travVars>>

\* A claim() that, once released, takes the row just dispatched as its own
\* instead of going back to claimTask.
ClaimWakeHandsOver(c) ==
  /\ cPc[c] = "waitForDispatch"
  /\ cGate[c] \in resolved[cBroker[c]]
  /\ Len(tasks) > 0
  /\ cPc' = [cPc EXCEPT ![c] = "returned"]
  /\ cRes' = [cRes EXCEPT ![c] = Len(tasks)]
  /\ TaskAgentCreate(c, Len(tasks))
  /\ UNCHANGED <<storeVars, gateVars, dispatchVars, cBroker, cGate, cAttempts,
                 cSince, runVars, subVars,
                 travVars>>

\* A claim() that goes round its loop without waiting for the gate.
ClaimWakeSpins(c) ==
  /\ cPc[c] = "waitForDispatch"
  /\ ClaimAttempt(c)
  /\ UNCHANGED <<events, storeFaulty, gateVars, dispatchVars, cBroker, cGate,
                 cSince, agentVars, runVars, subVars,
                 travVars>>

\* The deferred a claim() waits on has been resolved: the loop goes round
\* and attempts claimTask again.
ClaimWake(c) ==
  /\ cPc[c] = "waitForDispatch"
  /\ cGate[c] \in resolved[cBroker[c]]
  /\ ClaimAttempt(c)
  /\ UNCHANGED <<events, storeFaulty, gateVars, dispatchVars, cBroker, cGate,
                 cSince, agentVars, runVars, subVars,
                 travVars>>

\* ------------------------------------------------------------ TaskAgent
\* The calls of kind op made on agent c so far.
NumCalls(c, op) ==
  Cardinality({i \in 1..Len(calls[c]) : calls[c][i].op = op})

CompleteCalled(c) == NumCalls(c, "complete") > 0

\* The record of a call as it starts, with its first storage call issued.
NewCall(op, arg, res) ==
  [op |-> op, arg |-> arg, outcome |-> "pending", storeCalls |-> 1,
   storeFailed |-> IF res = "error" THEN 1 ELSE 0]

\* The last call of agent c ends with `outcome`, having issued `more` further
\* storage calls.
EndCall(c, outcome, more) ==
  [calls EXCEPT ![c][Len(calls[c])] =
     [@ EXCEPT !.outcome = outcome, !.storeCalls = @ + more]]

\* emitLog(message), up to `await this.storage.emit(...)`.  The caller makes
\* its calls one after the other, and none after it has called complete().
EmitLogCall(c) ==
  /\ agent[c] # NoAgent
  /\ aPc[c] = "ready"
  /\ ~CompleteCalled(c)
  /\ NumCalls(c, "emitLog") < MaxEmit
  /\ aPc' = [aPc EXCEPT ![c] = "emitLog"]
  /\ LET message == NumCalls(c, "emitLog") + 1 IN
       \/ /\ events' = StoreEmit(agent[c].taskId, agent[c].runId, "log", message)
          /\ aRes' = [aRes EXCEPT ![c] = "ok"]
          /\ calls' = [calls EXCEPT ![c] = Append(@, NewCall("emitLog", message, "ok"))]
       \/ /\ storeFaulty
          /\ events' = events
          /\ aRes' = [aRes EXCEPT ![c] = "error"]
          /\ calls' = [calls EXCEPT ![c] = Append(@, NewCall("emitLog", message, "error"))]
  /\ UNCHANGED <<tasks, storeFaulty, gateVars, dispatchVars, claimVars,
                 agentVars, floating, hbWrites, hbErrors, workspaceNames, subVars,
                 travVars>>

\* The continuation of emitLog: it returns, or throws the rejection of emit.
EmitLogResume(c) ==
  /\ aPc[c] = "emitLog"
  /\ aPc' = [aPc EXCEPT ![c] = "ready"]
  /\ calls' = EndCall(c, IF aRes[c] = "error" THEN "threw" ELSE "returned", 0)
  /\ UNCHANGED <<storeVars, gateVars, dispatchVars, claimVars, agentVars,
                 aRes, floating, hbWrites, hbErrors, workspaceNames, subVars,
                 travVars>>

\* A complete() that writes `completed` whatever its result.
StatusOfAlwaysCompleted(result) == "completed"

\* The status complete(result) writes.
StatusOf(result) == IF result = "failed" THEN "failed" ELSE "completed"

\* complete(result), up to `await this.storage.setStatus(...)`.
CompleteCall(c, result) ==
  /\ agent[c] # NoAgent
  /\ aPc[c] = "ready"
  /\ NumCalls(c, "complete") < MaxComplete
  /\ aPc' = [aPc EXCEPT ![c] = "setStatus"]
  /\ \/ /\ tasks' = StoreSetStatus(agent[c].runId, StatusOf(result))
        /\ aRes' = [aRes EXCEPT ![c] = "ok"]
        /\ calls' = [calls EXCEPT ![c] = Append(@, NewCall("complete", result, "ok"))]
     \/ /\ storeFaulty
        /\ tasks' = tasks
        /\ aRes' = [aRes EXCEPT ![c] = "error"]
        /\ calls' = [calls EXCEPT ![c] = Append(@, NewCall("complete", result, "error"))]
  /\ UNCHANGED <<events, storeFaulty, gateVars, dispatchVars, claimVars,
                 agentVars, floating, hbWrites, hbErrors, workspaceNames, subVars,
                 travVars>>

\* What clearInterval leaves of the interval in complete().
ClearInterval(interval) == IF interval = "armed" THEN "cleared" ELSE interval

\* A complete() that clears the heartbeat interval also when setStatus
\* was rejected.
CompleteResumeClearsAlways(c) ==
  /\ aPc[c] = "setStatus"
  /\ aPc' = [aPc EXCEPT ![c] = "ready"]
  /\ heartbeatInterval' = [heartbeatInterval EXCEPT ![c] = ClearInterval(@)]
  /\ IF aRes[c] = "error"
       THEN /\ calls' = EndCall(c, "threw", 0)
            /\ UNCHANGED floating
       ELSE /\ calls' = EndCall(c, "returned", 1)
            /\ floating' = [floating EXCEPT ![c] =
                 Append(@, [call |-> Len(calls[c]),
                            result |-> calls[c][Len(calls[c])].arg])]
  /\ UNCHANGED <<storeVars, gateVars, dispatchVars, claimVars, agent, aRes,
                 hbWrites, hbErrors, workspaceNames, subVars,
                 travVars>>

\* The continuation of complete: a rejection of setStatus is thrown; else
\* the completion event is emitted without being awaited, the heartbeat
\* interval is cleared, and complete returns.
CompleteResume(c) ==
  /\ aPc[c] = "setStatus"
  /\ aPc' = [aPc EXCEPT ![c] = "ready"]
  /\ IF aRes[c] = "error"
       THEN /\ calls' = EndCall(c, "threw", 0)
            /\ UNCHANGED <<floating, heartbeatInterval>>
       ELSE /\ calls' = EndCall(c, "returned", 1)
            /\ floating' = [floating EXCEPT ![c] =
                 Append(@, [call |-> Len(calls[c]),
                            result |-> calls[c][Len(calls[c])].arg])]
            /\ heartbeatInterval' = [heartbeatInterval EXCEPT ![c] =
                 ClearInterval(@)]
  /\ UNCHANGED <<storeVars, gateVars, dispatchVars, claimVars, agent, aRes,
                 hbWrites, hbErrors, workspaceNames, subVars,
                 travVars>>

\* `floating` without its i-th emit.
RemoveAt(seq, i) == SubSeq(seq, 1, i - 1) \o SubSeq(seq, i + 1, Len(seq))

\* An emit that complete() left unawaited settles: the store appends the
\* completion event, or rejects, and no one handles the rejection.
FloatingEmitSettle(c, i) ==
  /\ i \in 1..Len(floating[c])
  /\ floating' = [floating EXCEPT ![c] = RemoveAt(@, i)]
  /\ \/ /\ events' = StoreEmit(agent[c].taskId, agent[c].runId, "completion",
                               floating[c][i].result)
        /\ calls' = calls
     \/ /\ storeFaulty
        /\ events' = events
        /\ calls' = [calls EXCEPT ![c][floating[c][i].call].storeFailed = @ + 1]
  /\ UNCHANGED <<tasks, storeFaulty, gateVars, dispatchVars, claimVars,
                 agentVars, aPc, aRes, hbWrites, hbErrors, workspaceNames, subVars,
                 travVars>>

\* A heartbeat set with a one-shot timer: it is spent by its first firing.
HeartbeatFireOnce(c) ==
  /\ heartbeatInterval[c] = "armed"
  /\ Len(hbWrites[c]) < MaxHeartbeats
  /\ heartbeatInterval' = [heartbeatInterval EXCEPT ![c] = "cleared"]
  /\ tasks' = StoreHeartbeat(agent[c].runId)
  /\ hbWrites' = [hbWrites EXCEPT ![c] = Append(@,
       [runId |-> agent[c].runId, rejected |-> FALSE,
        afterComplete |-> CompleteCalled(c)])]
  /\ UNCHANGED <<events, storeFaulty, gateVars, dispatchVars, claimVars,
                 agent, aPc, aRes, calls, floating, hbErrors, workspaceNames, subVars,
                 travVars>>

\* One firing of the interval set by start().  Without a run id it throws
\* out of the timer callback, and what follows is the runtime's: it ends
\* the process on the uncaught error, or it reports the error and goes on,
\* the interval still set.  With a run id it issues storage.heartbeat(runId)
\* and does not await it.
HeartbeatFire(c) ==
  /\ heartbeatInterval[c] = "armed"
  /\ Len(hbWrites[c]) + hbErrors[c] < MaxHeartbeats
  /\ IF agent[c].runId = 0
       THEN /\ hbErrors' = [hbErrors EXCEPT ![c] = @ + 1]
            /\ UNCHANGED <<tasks, hbWrites>>
            /\ \/ heartbeatInterval' = [heartbeatInterval EXCEPT ![c] = "exited"]
               \/ heartbeatInterval' = heartbeatInterval
       ELSE /\ UNCHANGED <<hbErrors, heartbeatInterval>>
            /\ \/ /\ tasks' = StoreHeartbeat(agent[c].runId)
                  /\ hbWrites' = [hbWrites EXCEPT ![c] = Append(@,
                       [runId |-> agent[c].runId, rejected |-> FALSE,
                        afterComplete |-> CompleteCalled(c)])]
               \/ /\ storeFaulty
                  /\ tasks' = tasks
                  /\ hbWrites' = [hbWrites EXCEPT ![c] = Append(@,
                       [runId |-> agent[c].runId, rejected |-> TRUE,
                        afterComplete |-> CompleteCalled(c)])]
  /\ UNCHANGED <<events, storeFaulty, gateVars, dispatchVars, claimVars,
                 agent, aPc, aRes, calls, floating, workspaceNames, subVars,
                 travVars>>

\* The process of agent c has been ended by the runtime.
ProcessExited(c) == heartbeatInterval[c] = "exited"

\* get spec(): the spec of the state the agent was constructed with.
AgentSpec(c) == agent[c].spec

\* The workspace name made of the run id before the task id.
GetWorkspaceNameRunFirst(state) ==
  ToString(state.runId) \o "_" \o ToString(state.taskId)

\* The template string of getWorkspaceName: `${taskId}_${runId}`.
GetWorkspaceName(state) ==
  ToString(state.taskId) \o "_" \o ToString(state.runId)

\* getWorkspaceName() on agent c: it has no await and returns at once.
GetWorkspaceNameCall(c) ==
  /\ agent[c] # NoAgent
  /\ Len(workspaceNames[c]) < MaxNames
  /\ workspaceNames' = [workspaceNames EXCEPT ![c] =
       Append(@, GetWorkspaceName(agent[c]))]
  /\ UNCHANGED <<storeVars, gateVars, dispatchVars, claimVars, agentVars,
                 aPc, aRes, calls, floating, hbWrites, hbErrors, subVars,
                 travVars>>

\* -------------------------------------------------------------- observe
\* `await this.storage.getEvents({ taskId, after })` with the cursor given:
\* the store answers with the batch it holds now, or rejects.
SubPoll(cursor, taskId) ==
  /\ subPc' = "getEvents"
  /\ \/ subRes' = [ok |-> TRUE, events |-> StoreGetEvents(taskId, cursor)]
     \/ /\ storeFaulty
        /\ subRes' = [ok |-> FALSE, events |-> <<>>]

\* observe({taskId, after}, callback), called with the task id that
\* dispatch() call d returned: the loop starts at once, and runs up to its
\* first getEvents.
ObserveCall(d, after0, mode) ==
  /\ subPc = "idle"
  /\ dPc[d] = "returned"
  /\ LET taskId == dRes[d] IN
       /\ subOpts' = [taskId |-> taskId, after |-> after0]
       /\ SubPoll(after0, taskId)
  /\ cbMode' = mode
  /\ after' = after0
  /\ UNCHANGED <<storeVars, gateVars, dispatchVars, claimVars, agentVars,
                 runVars, cancelled, subErr, invocations,
                 travVars>>

\* One invocation of the callback, as the observer sees it, with the
\* cursor of the loop at the invocation.
Invocation(isError, batch, threw) ==
  [error |-> isError, events |-> batch, threw |-> threw,
   afterUnsubscribe |-> cancelled, cursor |-> after']

\* A cursor taken from the first event of the batch instead of the last.
NextCursorFirst(batch) == batch[1]

\* The cursor after a batch that is not empty: the id of its last event.
NextCursor(batch) == batch[Len(batch)]

\* A loop that moves its cursor after the callback has returned, and so
\* not when the callback throws.
SubResumeAdvancesOnReturn ==
  /\ subPc = "getEvents"
  /\ IF ~subRes.ok
       THEN /\ subPc' = "crashed"
            /\ subErr' = "storage"
            /\ UNCHANGED <<after, invocations>>
       ELSE IF subRes.events = <<>>
       THEN /\ subPc' = "delay"
            /\ UNCHANGED <<after, subErr, invocations>>
       ELSE /\ subPc' = "delay"
            /\ subErr' = subErr
            /\ \/ /\ after' = NextCursor(subRes.events)
                  /\ invocations' = Append(invocations,
                       [Invocation(FALSE, subRes.events, FALSE)
                          EXCEPT !.cursor = after])
               \/ /\ cbMode # "neverThrows"
                  /\ after' = after
                  /\ invocations' = invocations \o
                       << Invocation(FALSE, subRes.events, TRUE),
                          Invocation(TRUE, <<>>, FALSE) >>
  /\ UNCHANGED <<storeVars, gateVars, dispatchVars, claimVars, agentVars,
                 runVars, subOpts, cancelled, subRes, cbMode,
                 travVars>>

\* A loop that hands every batch to the callback, the empty ones too.
SubResumeCallsOnEmpty ==
  /\ subPc = "getEvents"
  /\ IF ~subRes.ok
       THEN /\ subPc' = "crashed"
            /\ subErr' = "storage"
            /\ UNCHANGED <<after, invocations>>
       ELSE /\ after' = IF subRes.events = <<>> THEN after
                                                ELSE NextCursor(subRes.events)
            /\ invocations' = Append(invocations,
                 Invocation(FALSE, subRes.events, FALSE))
            /\ subPc' = "delay"
            /\ subErr' = subErr
  /\ UNCHANGED <<storeVars, gateVars, dispatchVars, claimVars, agentVars,
                 runVars, subOpts, cancelled, subRes, cbMode,
                 travVars>>

\* The continuation of getEvents: a rejection ends the loop; a batch that
\* is not empty moves the cursor and goes to the callback, and if the
\* callback throws, the callback is invoked with the error; then the loop
\* waits for its delay.
SubResume ==
  /\ subPc = "getEvents"
  /\ IF ~subRes.ok
       THEN /\ subPc' = "crashed"
            /\ subErr' = "storage"
            /\ UNCHANGED <<after, invocations>>
       ELSE IF subRes.events = <<>>
       THEN /\ subPc' = "delay"
            /\ UNCHANGED <<after, subErr, invocations>>
       ELSE /\ after' = NextCursor(subRes.events)
            /\ \/ /\ invocations' = Append(invocations,
                       Invocation(FALSE, subRes.events, FALSE))
                  /\ subPc' = "delay"
                  /\ subErr' = subErr
               \/ /\ cbMode # "neverThrows"
                  /\ invocations' = invocations \o
                       << Invocation(FALSE, subRes.events, TRUE),
                          Invocation(TRUE, <<>>, FALSE) >>
                  /\ subPc' = "delay"
                  /\ subErr' = subErr
               \/ /\ cbMode = "mayThrowAlways"
                  /\ invocations' = invocations \o
                       << Invocation(FALSE, subRes.events, TRUE),
                          Invocation(TRUE, <<>>, TRUE) >>
                  /\ subPc' = "crashed"
                  /\ subErr' = "callback"
  /\ UNCHANGED <<storeVars, gateVars, dispatchVars, claimVars, agentVars,
                 runVars, subOpts, cancelled, subRes, cbMode,
                 travVars>>

\* A loop that tests `cancelled` at the end of a round only: after its
\* delay it polls, cancelled or not.
SubDelayElapsedPollsAgain ==
  /\ subPc = "delay"
  /\ SubPoll(after, subOpts.taskId)
  /\ UNCHANGED <<storeVars, gateVars, dispatchVars, claimVars, agentVars,
                 runVars, subOpts, cancelled, after, subErr, invocations,
                 cbMode,
                 travVars>>

\* The delay of the loop is over: the loop ends if the subscription is
\* cancelled, and polls again if not.
SubDelayElapsed ==
  /\ subPc = "delay"
  /\ IF cancelled
       THEN /\ subPc' = "exited"
            /\ subRes' = subRes
       ELSE SubPoll(after, subOpts.taskId)
  /\ UNCHANGED <<storeVars, gateVars, dispatchVars, claimVars, agentVars,
                 runVars, subOpts, cancelled, after, subErr, invocations,
                 cbMode,
                 travVars>>

\* The handle observe() returned is called.
Unsubscribe ==
  /\ subPc # "idle"
  /\ ~cancelled
  /\ cancelled' = TRUE
  /\ UNCHANGED <<storeVars, gateVars, dispatchVars, claimVars, agentVars,
                 runVars, subPc, subOpts, after, subRes, subErr, invocations,
                 cbMode,
                 travVars>>

\* ------------------------------------------------------ traverseCatalog
\* The sequence of the elements of a set of entity refs, ascending.
RECURSIVE SetToSeq(_)
SetToSeq(S) ==
  IF S = {} THEN <<>>
  ELSE LET least == CHOOSE n \in S : \A m \in S : n <= m
       IN <<least>> \o SetToSeq(S \ {least})

\* The followers given as `follow`: for each node, the entity refs it
\* passes to visit(), in the order it does.
Followers ==
  {[n \in Nodes |-> SetToSeq(out[n])] :
     out \in [Nodes -> {S \in SUBSET Nodes : Cardinality(S) <= MaxOut}]}

\* The initial sets given as `initial`: entityRefs, of which entityRef is
\* the case of one element.
InitialSets == UNION {[1..k -> Nodes] : k \in 0..MaxInitial}

\* makeNode(entityRef, depth, edgeData).  As edge data a follower gives
\* the entity ref of the node it was visiting; an initial node has none.
MakeNode(entityRef, depth, edgeData) ==
  [entityRef |-> entityRef, depth |-> depth, edgeData |-> edgeData]

\* A visited set that never holds anything.
VisitedNodesHasNone(visited, entityRef) == FALSE

\* visitedNodes.has(entityRef).
VisitedNodesHas(visited, entityRef) == entityRef \in visited

\* currentLayer.map(async current => ...): the functions of the nodes of
\* the layer are started one after the other, and each runs up to its
\* first await: it returns if the node is visited, else it adds the node
\* to visitedNodes and calls collect.visitNode.  `acc` carries the layer
\* started so far, visitedNodes and the visitNode calls made.
RECURSIVE MapLayer(_, _)
MapLayer(layer, acc) ==
  IF layer = <<>> THEN acc
  ELSE LET current == Head(layer)
           ref == current.entityRef
       IN IF VisitedNodesHas(acc.visited, ref)
            THEN MapLayer(Tail(layer),
                   [acc EXCEPT !.started = Append(@,
                      [node |-> current, pc |-> "done", todo |-> <<>>, index |-> 0])])
            ELSE MapLayer(Tail(layer),
                   [started |-> Append(acc.started,
                      [node |-> current, pc |-> "visitNode", todo |-> <<>>,
                       index |-> 0]),
                    visited |-> acc.visited \cup {ref},
                    visits |-> [acc.visits EXCEPT ![ref] = @ + 1]])

\* Promise.all has resolved: every function of the layer has returned.
LayerDone == \A i \in 1..Len(currentLayer) : currentLayer[i].pc = "done"

\* One round of `while (nextLayer.length)`: the layer is taken out of
\* nextLayer and its functions are started.
LayerStart ==
  /\ travPc = "loop"
  /\ LayerDone
  /\ nextLayer # <<>>
  /\ LET acc == MapLayer(nextLayer, [started |-> <<>>, visited |-> visitedNodes,
                                     visits |-> nodeVisits])
     IN /\ currentLayer' = acc.started
        /\ visitedNodes' = acc.visited
        /\ nodeVisits' = acc.visits
  /\ nextLayer' = <<>>
  /\ UNCHANGED <<brokerVars, follower, edgeVisits, visitRequests, travPc>>

\* `await collect.visitNode` of node i of the layer is over: follow.visitNode
\* is called, and the function awaits it.
CollectVisitNodeReturns(i) ==
  /\ i \in 1..Len(currentLayer)
  /\ currentLayer[i].pc = "visitNode"
  /\ currentLayer' = [currentLayer EXCEPT ![i] =
       [@ EXCEPT !.pc = "follow", !.todo = follower[currentLayer[i].node.entityRef]]]
  /\ UNCHANGED <<brokerVars, follower, visitedNodes, nextLayer, nodeVisits,
                 edgeVisits, visitRequests, travPc>>

\* The follower, visiting node i of the layer, calls visit(next): a node
\* one deeper is pushed on nextLayer.
FollowerVisit(i) ==
  /\ i \in 1..Len(currentLayer)
  /\ currentLayer[i].pc = "follow"
  /\ currentLayer[i].todo # <<>>
  /\ LET current == currentLayer[i].node
         next == Head(currentLayer[i].todo)
     IN /\ nextLayer' = Append(nextLayer,
             MakeNode(next, current.depth + 1, current.entityRef))
        /\ visitRequests' = [visitRequests EXCEPT ![current.entityRef, next] = @ + 1]
  /\ currentLayer' = [currentLayer EXCEPT ![i].todo = Tail(@)]
  /\ UNCHANGED <<brokerVars, follower, visitedNodes, nodeVisits, edgeVisits,
                 travPc>>

\* One step of `for (const next of nextLayer)` in the function of node i,
\* from position `index` of the array as it is now: collect.visitEdge is
\* called for the next element and awaited, or the loop and the function
\* end.
ForNextOfNextLayer(i, index) ==
  IF index < Len(nextLayer)
    THEN /\ currentLayer' = [currentLayer EXCEPT ![i] =
              [@ EXCEPT !.pc = "visitEdge", !.index = index + 1]]
         /\ edgeVisits' = [edgeVisits EXCEPT
              ![currentLayer[i].node.entityRef, nextLayer[index + 1].entityRef] = @ + 1]
    ELSE /\ currentLayer' = [currentLayer EXCEPT ![i] =
              [@ EXCEPT !.pc = "done", !.index = index]]
         /\ edgeVisits' = edgeVisits

\* `await follow.visitNode` of node i is over: its loop over nextLayer
\* starts.
FollowerReturns(i) ==
  /\ i \in 1..Len(currentLayer)
  /\ currentLayer[i].pc = "follow"
  /\ currentLayer[i].todo = <<>>
  /\ ForNextOfNextLayer(i, 0)
  /\ UNCHANGED <<brokerVars, follower, visitedNodes, nextLayer, nodeVisits,
                 visitRequests, travPc>>

\* `await collect.visitEdge` of node i is over: its loop goes on.
CollectVisitEdgeReturns(i) ==
  /\ i \in 1..Len(currentLayer)
  /\ currentLayer[i].pc = "visitEdge"
  /\ ForNextOfNextLayer(i, currentLayer[i].index)
  /\ UNCHANGED <<brokerVars, follower, visitedNodes, nextLayer, nodeVisits,
                 visitRequests, travPc>>

\* No layer is left: `return collect.complete()`.
TraverseReturn ==
  /\ travPc = "loop"
  /\ LayerDone
  /\ nextLayer = <<>>
  /\ travPc' = "returned"
  /\ UNCHANGED <<brokerVars, follower, visitedNodes, nextLayer, currentLayer,
                 nodeVisits, edgeVisits, visitRequests>>

\* ------------------------------------------------------- specifications
\* No traverseCatalog() call is made.
InitNoTraversal ==
  /\ follower = [n \in Nodes |-> <<>>]
  /\ visitedNodes = {}
  /\ nextLayer = <<>>
  /\ currentLayer = <<>>
  /\ nodeVisits = [n \in Nodes |-> 0]
  /\ edgeVisits = [e \in Nodes \X Nodes |-> 0]
  /\ visitRequests = [e \in Nodes \X Nodes |-> 0]
  /\ travPc = "idle"

Init ==
  /\ InitNoTraversal
  /\ tasks = <<>>
  /\ events = <<>>
  /\ storeFaulty \in BOOLEAN
  /\ deferredDispatch = [b \in Brokers |-> 0]
  /\ resolved = [b \in Brokers |-> {}]
  /\ dPc = [d \in Dispatchers |-> "idle"]
  /\ dBroker = [d \in Dispatchers |-> 1]
  /\ dRes = [d \in Dispatchers |-> Empty]
  /\ cPc = [c \in Claimers |-> "idle"]
  /\ cBroker = [c \in Claimers |-> 1]
  /\ cRes = [c \in Claimers |-> Empty]
  /\ cGate = [c \in Claimers |-> 0]
  /\ cAttempts = [c \in Claimers |-> 0]
  /\ cSince = [c \in Claimers |-> 0]
  /\ agent = [c \in Claimers |-> NoAgent]
  /\ heartbeatInterval = [c \in Claimers |-> "unset"]
  /\ aPc = [c \in Claimers |-> "ready"]
  /\ aRes = [c \in Claimers |-> "ok"]
  /\ calls = [c \in Claimers |-> <<>>]
  /\ floating = [c \in Claimers |-> <<>>]
  /\ hbWrites = [c \in Claimers |-> <<>>]
  /\ hbErrors = [c \in Claimers |-> 0]
  /\ workspaceNames = [c \in Claimers |-> <<>>]
  /\ subPc = "idle"
  /\ subOpts = [taskId |-> 0, after |-> 0]
  /\ cancelled = FALSE
  /\ after = 0
  /\ subRes = [ok |-> TRUE, events |-> <<>>]
  /\ subErr = "none"
  /\ invocations = <<>>
  /\ cbMode = "neverThrows"

\* Several dispatch() and claim() calls on several brokers over one store,
\* and the agents that claim() returns asked for their workspace names.
NextBroker ==
  \/ \E d \in Dispatchers, b \in Brokers : DispatchCall(d, b, TaskSpecOf(d))
  \/ \E d \in Dispatchers : DispatchResume(d)
  \/ \E c \in Claimers, b \in Brokers : ClaimCall(c, b)
  \/ \E c \in Claimers : ClaimResume(c)
  \/ \E c \in Claimers : ClaimWake(c)
  \/ \E c \in Claimers : GetWorkspaceNameCall(c)

\* The event loop runs every continuation that is ready.
FairBroker ==
  /\ \A d \in Dispatchers : WF_vars(DispatchResume(d))
  /\ \A c \in Claimers : WF_vars(ClaimResume(c)) /\ WF_vars(ClaimWake(c))

SpecBroker == Init /\ [][NextBroker]_vars /\ FairBroker

\* One dispatch() and one claim() on one broker, and the calls made on the
\* agent that claim() returns, with its heartbeat.
NextAgent ==
  \/ DispatchCall(1, 1, TaskSpecOf(1))
  \/ DispatchResume(1)
  \/ ClaimCall(1, 1)
  \/ ClaimResume(1)
  \/ ClaimWake(1)
  \/ EmitLogCall(1)
  \/ EmitLogResume(1)
  \/ \E result \in {"completed", "failed"} : CompleteCall(1, result)
  \/ CompleteResume(1)
  \/ \E i \in 1..MaxComplete : FloatingEmitSettle(1, i)
  \/ HeartbeatFire(1)

\* Storage calls settle and the event loop runs every ready continuation.
FairAgent ==
  /\ WF_vars(DispatchResume(1))
  /\ WF_vars(ClaimResume(1))
  /\ WF_vars(ClaimWake(1))
  /\ WF_vars(EmitLogResume(1))
  /\ WF_vars(CompleteResume(1))
  /\ \A i \in 1..MaxComplete : WF_vars(FloatingEmitSettle(1, i))

SpecAgent == Init /\ [][NextAgent]_vars /\ FairAgent

\* One dispatch() and one claim() on one broker, the calls made on the
\* agent by a caller that completes its run once, and one subscription to
\* the events of the task.
NextObserve ==
  \/ DispatchCall(1, 1, TaskSpecOf(1))
  \/ DispatchResume(1)
  \/ ClaimCall(1, 1)
  \/ ClaimResume(1)
  \/ ClaimWake(1)
  \/ EmitLogCall(1)
  \/ EmitLogResume(1)
  \/ \E result \in {"completed", "failed"} :
       ~CompleteCalled(1) /\ CompleteCall(1, result)
  \/ CompleteResume(1)
  \/ FloatingEmitSettle(1, 1)
  \/ \E after0 \in {0, 1}, mode \in CallbackModes :
       ObserveCall(1, after0, mode)
  \/ SubResume
  \/ SubDelayElapsed
  \/ Unsubscribe

\* As FairAgent, and the subscription's storage calls and delays end.
FairObserve ==
  /\ FairAgent
  /\ WF_vars(SubResume)
  /\ WF_vars(SubDelayElapsed)

SpecObserve == Init /\ [][NextObserve]_vars /\ FairObserve

\* TaskAgent.create(state, storage) has been called for the row of a
\* claimed task, with the run id of the row, which the row may lack
\* (DbTaskRow.runId is optional): the agent exists and its interval is set.
InitHeartbeat ==
  /\ InitNoTraversal
  /\ \E runId \in {0, 1} :
       /\ tasks = <<[spec |-> TaskSpecOf(1), status |-> "processing",
                     runId |-> runId, lastHeartbeat |-> FALSE, retryCount |-> 0]>>
       /\ agent = [c \in Claimers |->
            IF c = 1 THEN [taskId |-> 1, runId |-> runId, spec |-> TaskSpecOf(1)]
                     ELSE NoAgent]
  /\ heartbeatInterval = [c \in Claimers |-> IF c = 1 THEN "armed" ELSE "unset"]
  /\ events = <<>>
  /\ storeFaulty \in BOOLEAN
  /\ deferredDispatch = [b \in Brokers |-> IF b = 1 THEN 1 ELSE 0]
  /\ resolved = [b \in Brokers |-> IF b = 1 THEN {0} ELSE {}]
  /\ dPc = [d \in Dispatchers |-> IF d = 1 THEN "returned" ELSE "idle"]
  /\ dBroker = [d \in Dispatchers |-> 1]
  /\ dRes = [d \in Dispatchers |-> IF d = 1 THEN 1 ELSE Empty]
  /\ cPc = [c \in Claimers |-> IF c = 1 THEN "returned" ELSE "idle"]
  /\ cBroker = [c \in Claimers |-> 1]
  /\ cRes = [c \in Claimers |-> IF c = 1 THEN 1 ELSE Empty]
  /\ cGate = [c \in Claimers |-> 0]
  /\ cAttempts = [c \in Claimers |-> IF c = 1 THEN 1 ELSE 0]
  /\ cSince = [c \in Claimers |-> IF c = 1 THEN 1 ELSE 0]
  /\ aPc = [c \in Claimers |-> "ready"]
  /\ aRes = [c \in Claimers |-> "ok"]
  /\ calls = [c \in Claimers |-> <<>>]
  /\ floating = [c \in Claimers |-> <<>>]
  /\ hbWrites = [c \in Claimers |-> <<>>]
  /\ hbErrors = [c \in Claimers |-> 0]
  /\ workspaceNames = [c \in Claimers |-> <<>>]
  /\ subPc = "idle"
  /\ subOpts = [taskId |-> 0, after |-> 0]
  /\ cancelled = FALSE
  /\ after = 0
  /\ subRes = [ok |-> TRUE, events |-> <<>>]
  /\ subErr = "none"
  /\ invocations = <<>>
  /\ cbMode = "neverThrows"

\* The calls made on the agent and the firings of its timer, for as long
\* as its process lives.
NextHeartbeat ==
  \/ ~ProcessExited(1) /\ EmitLogCall(1)
  \/ ~ProcessExited(1) /\ EmitLogResume(1)
  \/ \E result \in {"completed", "failed"} :
       ~ProcessExited(1) /\ CompleteCall(1, result)
  \/ ~ProcessExited(1) /\ CompleteResume(1)
  \/ \E i \in 1..MaxComplete : ~ProcessExited(1) /\ FloatingEmitSettle(1, i)
  \/ HeartbeatFire(1)

FairHeartbeat ==
  /\ WF_vars(~ProcessExited(1) /\ EmitLogResume(1))
  /\ WF_vars(~ProcessExited(1) /\ CompleteResume(1))
  /\ \A i \in 1..MaxComplete :
       WF_vars(~ProcessExited(1) /\ FloatingEmitSettle(1, i))

SpecHeartbeat == InitHeartbeat /\ [][NextHeartbeat]_vars /\ FairHeartbeat

\* traverseCatalog() is called with a follower and an initial set, and has
\* pushed the nodes of the initial set; no broker is in use.
InitTraverse ==
  /\ follower \in Followers
  /\ visitedNodes = {}
  /\ \E initial \in InitialSets :
       nextLayer = [k \in 1..Len(initial) |-> MakeNode(initial[k], 0, 0)]
  /\ currentLayer = <<>>
  /\ nodeVisits = [n \in Nodes |-> 0]
  /\ edgeVisits = [e \in Nodes \X Nodes |-> 0]
  /\ visitRequests = [e \in Nodes \X Nodes |-> 0]
  /\ travPc = "loop"
  /\ tasks = <<>>
  /\ events = <<>>
  /\ storeFaulty = FALSE
  /\ deferredDispatch = [b \in Brokers |-> 0]
  /\ resolved = [b \in Brokers |-> {}]
  /\ dPc = [d \in Dispatchers |-> "idle"]
  /\ dBroker = [d \in Dispatchers |-> 1]
  /\ dRes = [d \in Dispatchers |-> Empty]
  /\ cPc = [c \in Claimers |-> "idle"]
  /\ cBroker = [c \in Claimers |-> 1]
  /\ cRes = [c \in Claimers |-> Empty]
  /\ cGate = [c \in Claimers |-> 0]
  /\ cAttempts = [c \in Claimers |-> 0]
  /\ cSince = [c \in Claimers |-> 0]
  /\ agent = [c \in Claimers |-> NoAgent]
  /\ heartbeatInterval = [c \in Claimers |-> "unset"]
  /\ aPc = [c \in Claimers |-> "ready"]
  /\ aRes = [c \in Claimers |-> "ok"]
  /\ calls = [c \in Claimers |-> <<>>]
  /\ floating = [c \in Claimers |-> <<>>]
  /\ hbWrites = [c \in Claimers |-> <<>>]
  /\ hbErrors = [c \in Claimers |-> 0]
  /\ workspaceNames = [c \in Claimers |-> <<>>]
  /\ subPc = "idle"
  /\ subOpts = [taskId |-> 0, after |-> 0]
  /\ cancelled = FALSE
  /\ after = 0
  /\ subRes = [ok |-> TRUE, events |-> <<>>]
  /\ subErr = "none"
  /\ invocations = <<>>
  /\ cbMode = "neverThrows"

\* The layers of one traversal, the functions of a layer going on in any
\* order.
NextTraverse ==
  \/ LayerStart
  \/ \E i \in 1..(MaxInitial + NumNodes * MaxOut) : CollectVisitNodeReturns(i)
  \/ \E i \in 1..(MaxInitial + NumNodes * MaxOut) : FollowerVisit(i)
  \/ \E i \in 1..(MaxInitial + NumNodes * MaxOut) : FollowerReturns(i)
  \/ \E i \in 1..(MaxInitial + NumNodes * MaxOut) : CollectVisitEdgeReturns(i)
  \/ TraverseReturn

\* The collector and the follower return, and the event loop runs every
\* ready continuation.
FairTraverse ==
  /\ WF_vars(LayerStart)
  /\ WF_vars(TraverseReturn)
  /\ \A i \in 1..(MaxInitial + NumNodes * MaxOut) :
       /\ WF_vars(CollectVisitNodeReturns(i))
       /\ WF_vars(FollowerVisit(i))
       /\ WF_vars(FollowerReturns(i))
       /\ WF_vars(CollectVisitEdgeReturns(i))

SpecTraverse == InitTraverse /\ [][NextTraverse]_vars /\ FairTraverse

\* ------------------------------------------------- dispatch and claim
DispatchesDone == \A d \in Dispatchers : dPc[d] \in {"returned", "threw"}
ClaimsCalled == \A c \in Claimers : cPc[c] # "idle"

\* No continuation of a dispatch() or claim() call is ready or will become
\* ready: each claim() has returned, thrown, or waits on an unresolved
\* deferred.
ClaimSuspended(c) ==
  /\ cPc[c] = "waitForDispatch"
  /\ cGate[c] \notin resolved[cBroker[c]]
Quiescent ==
  /\ DispatchesDone
  /\ \A c \in Claimers : cPc[c] \in {"returned", "threw"} \/ ClaimSuspended(c)

OneBroker ==
  /\ \A d \in Dispatchers : dBroker[d] = 1
  /\ \A c \in Claimers : cBroker[c] = 1

\* The claim() calls that returned an agent for task t.
ClaimedBy(t) == {c \in Claimers : cPc[c] = "returned" /\ agent[c].taskId = t}

\* C1: no lost dispatch.  On one broker over a store that does not fail,
\* once the NumDispatch dispatch() calls have returned and the NumClaim
\* claim() calls have run as far as they can, every dispatched task has
\* been returned by exactly one claim().
C1_NoLostDispatch ==
  (~storeFaulty /\ OneBroker /\ ClaimsCalled /\ Quiescent)
    => \A t \in 1..Len(tasks) : Cardinality(ClaimedBy(t)) = 1

\* C2: at most one run per task.  No two TaskAgents are constructed for
\* the same task id, and no two carry the same run id, whichever brokers
\* the claim() calls are made on.
C2_AtMostOneAgentPerTask ==
  \A c1, c2 \in Claimers :
    (c1 # c2 /\ agent[c1] # NoAgent /\ agent[c2] # NoAgent)
      => /\ agent[c1].taskId # agent[c2].taskId
         /\ agent[c1].runId # agent[c2].runId

\* Two claim() calls on different brokers have each constructed an agent.
C2_Witness ==
  /\ agent[1] # NoAgent
  /\ agent[2] # NoAgent
  /\ cBroker[1] # cBroker[2]

\* The claimTask of claim() call c has been rejected and its continuation
\* has not run yet.
ClaimTaskFailed(c) == cPc[c] = "claimTask" /\ cRes[c] = Failed

\* C11: a rejection of claimTask is thrown to the caller of claim() at
\* once.  A claim() that has thrown holds no agent and no heartbeat
\* interval; from the rejection on, the call makes no claimTask attempt,
\* reads no gate and constructs no agent, and its next step is the throw,
\* which comes.
C11_ThrewWithoutAgent ==
  \A c \in Claimers :
    cPc[c] = "threw"
      => /\ cRes[c] = Failed
         /\ agent[c] = NoAgent
         /\ heartbeatInterval[c] = "unset"
C11_NoStepAfterFailure ==
  \A c \in Claimers :
    (ClaimTaskFailed(c) \/ cPc[c] = "threw")
      => /\ cPc'[c] \in {cPc[c], "threw"}
         /\ cRes'[c] = cRes[c]
         /\ cAttempts'[c] = cAttempts[c]
         /\ cGate'[c] = cGate[c]
         /\ agent'[c] = agent[c]
         /\ heartbeatInterval'[c] = heartbeatInterval[c]
         /\ (cPc'[c] # cPc[c] => tasks' = tasks)
C11_ClaimFailurePropagates ==
  /\ [](C11_ThrewWithoutAgent)
  /\ [][C11_NoStepAfterFailure]_vars
  /\ \A c \in Claimers : ClaimTaskFailed(c) ~> (cPc[c] = "threw")

\* A claim() has thrown while a task was open for it to take, and another
\* claim() has returned an agent.
C11_Witness ==
  /\ cPc[1] = "threw"
  /\ OpenTasks # {}
  /\ cPc[2] = "returned"

\* C13: claim() returns only with a row that a claimTask of its own
\* returned, and the agent is bound to that row: its spec is the row's
\* spec, and every getWorkspaceName() call returns the row's task id, an
\* underscore and the row's run id.
C13_AgentBoundToRow ==
  \A c \in Claimers :
    /\ (agent[c] # NoAgent \/ workspaceNames[c] # <<>>) => cPc[c] = "returned"
    /\ cPc[c] = "returned"
         => /\ cRes[c] \in 1..Len(tasks)
            /\ tasks[cRes[c]].runId # 0
            /\ AgentSpec(c) = tasks[cRes[c]].spec
            /\ \A i \in 1..Len(workspaceNames[c]) :
                 workspaceNames[c][i] =
                   ToString(cRes[c]) \o "_" \o ToString(tasks[cRes[c]].runId)

\* An agent whose task id and run id differ has returned its workspace
\* name twice.
C13_Witness ==
  \E c \in Claimers :
    /\ cPc[c] = "returned"
    /\ agent[c].taskId # agent[c].runId
    /\ Len(workspaceNames[c]) = MaxNames

\* dispatch() call d returns in this step, having signalled its gate.
DispatchSignals(d) == dPc[d] = "createTask" /\ dPc'[d] = "returned"

\* C14: dispatch() wakes every broker instance blocked in claim().  When a
\* dispatch() on any broker over the store signals, every claim() that
\* waits for a dispatch, on whichever broker over that store, is released.
C14_DispatchWakesEveryBroker ==
  [][\A d \in Dispatchers :
       DispatchSignals(d)
         => \A c \in Claimers :
              cPc[c] = "waitForDispatch" => cGate[c] \in resolved'[cBroker[c]]]_vars

\* The dispatch() calls on broker b that have returned.
ReturnedOn(b) == {d \in Dispatchers : dPc[d] = "returned" /\ dBroker[d] = b}

\* claim() call c has read the gate and waits on it.
Waiting(c) == cPc[c] = "waitForDispatch"
Released(c) == Waiting(c) /\ cGate[c] \in resolved[cBroker[c]]

\* C15: broadcast gate.  The deferred a broker holds is never a resolved
\* one; a signal on a broker releases every claim() on it that has read
\* the gate, however many there are; a claim() that starts to wait reads
\* the deferred held then, which is not resolved; and a waiting claim()
\* moves on only when released, to a new claimTask attempt, which it makes.
C15_GateIsFresh ==
  \A b \in Brokers : deferredDispatch[b] \notin resolved[b]
C15_SignalReleasesAll ==
  \A d \in Dispatchers :
    DispatchSignals(d)
      => \A c \in Claimers :
           (Waiting(c) /\ cBroker[c] = dBroker[d])
             => cGate[c] \in resolved'[cBroker[c]]
C15_WaitsOnFreshGate ==
  \A c \in Claimers :
    /\ (~Waiting(c) /\ cPc'[c] = "waitForDispatch")
         => /\ cGate'[c] = deferredDispatch'[cBroker[c]]
            /\ cGate'[c] \notin resolved'[cBroker[c]]
    /\ (Waiting(c) /\ cPc'[c] # "waitForDispatch")
         => Released(c) /\ cPc'[c] = "claimTask"
C15_BroadcastGate ==
  /\ [](C15_GateIsFresh)
  /\ [][C15_SignalReleasesAll /\ C15_WaitsOnFreshGate]_vars
  /\ \A c \in Claimers : Released(c) ~> (cPc[c] = "claimTask")

\* Two claim() calls on one broker, one signal on it: one of them has
\* returned the task, and the other, released too, found none and waits on
\* the deferred installed by the signal.
C15_Witness ==
  \E c1, c2 \in Claimers :
    /\ cBroker[c1] = cBroker[c2]
    /\ cPc[c1] = "returned"
    /\ Cardinality(ReturnedOn(cBroker[c1])) = 1
    /\ Len(tasks) = 1
    /\ ClaimSuspended(c2)
    /\ cGate[c2] = 1

\* The signals made on the broker of claim() call c since the call.
SignalsSince(c) == deferredDispatch[cBroker[c]] - cSince[c]

\* C25: claim() does not busy-spin.  A claim() call has made at most one
\* claimTask attempt more than its broker has signalled since the call;
\* and when it waits, the signals made before it read the gate account
\* for all its attempts but the first, so that its next attempt needs one
\* signal more.
C25_NoBusySpin ==
  \A c \in Claimers :
    cPc[c] # "idle"
      => /\ cAttempts[c] >= 1
         /\ cAttempts[c] <= 1 + SignalsSince(c)
         /\ Waiting(c) => cAttempts[c] <= 1 + (cGate[c] - cSince[c])

\* A claim() call has made three claimTask attempts, the last of which
\* returned a task.
C25_Witness ==
  \E c \in Claimers :
    /\ cAttempts[c] = 3
    /\ SignalsSince(c) = 2
    /\ cPc[c] = "returned"

\* The dispatch() calls whose createTask has persisted a row.
Persisted == {d \in Dispatchers : dPc[d] # "idle" /\ dRes[d] # Failed}

\* C12: dispatch() throws only when its createTask was rejected, and then
\* the gate is as it was; a dispatch() whose createTask succeeded has
\* persisted exactly one row, of its own, and the gate of its broker is
\* signalled once per dispatch() that returned, so after the row is
\* persisted and never before.
C12_DispatchFrame ==
  /\ \A d \in Dispatchers : dPc[d] = "threw" => dRes[d] = Failed
  /\ \A d \in Dispatchers :
       dPc[d] = "returned"
         => /\ dRes[d] \in 1..Len(tasks)
            /\ tasks[dRes[d]].spec = TaskSpecOf(d)
  /\ Len(tasks) = Cardinality(Persisted)
  /\ \A d1, d2 \in Persisted : d1 # d2 => dRes[d1] # dRes[d2]
  /\ \A b \in Brokers :
       /\ deferredDispatch[b] = Cardinality(ReturnedOn(b))
       /\ resolved[b] = 0..(deferredDispatch[b] - 1)

\* On one broker a dispatch() has thrown and another has returned, with a
\* claim() waiting on the gate that the one that returned installed.
C12_Witness ==
  /\ \E d1, d2 \in Dispatchers :
       /\ dPc[d1] = "threw"
       /\ dPc[d2] = "returned"
       /\ dBroker[d1] = dBroker[d2]
       /\ \E c \in Claimers :
            /\ cBroker[c] = dBroker[d1]
            /\ ClaimSuspended(c)
            /\ cGate[c] = 1

\* ------------------------------------------------------------ the agent
\* C8: no heartbeat write is issued for a run once complete() has been
\* called on its agent, the time complete() spends awaiting setStatus
\* included.
C8_NoHeartbeatAfterComplete ==
  \A c \in Claimers : \A i \in 1..Len(hbWrites[c]) :
    ~hbWrites[c][i].afterComplete

\* C9: from the return of claim() until complete() is called, the agent's
\* heartbeat interval is armed, whatever emitLog or an earlier heartbeat
\* write met in storage, and every firing of it issues one heartbeat write
\* that carries the run id of the agent's row.
C9_AliveUntilComplete ==
  \A c \in Claimers :
    (agent[c] # NoAgent /\ ~CompleteCalled(c))
      => /\ heartbeatInterval[c] = "armed"
         /\ agent[c].runId # 0
         /\ agent[c].runId = tasks[agent[c].taskId].runId
         /\ \A i \in 1..Len(hbWrites[c]) : hbWrites[c][i].runId = agent[c].runId
C9_EveryFiringWrites ==
  \A c \in Claimers :
    HeartbeatFire(c) => Len(hbWrites'[c]) = Len(hbWrites[c]) + 1
C9_HeartbeatAlive ==
  [](C9_AliveUntilComplete) /\ [][C9_EveryFiringWrites]_vars

\* An emitLog has thrown, a heartbeat write was rejected, complete() has
\* not been called, and the interval has fired again and is still armed.
C9_Witness ==
  /\ ~CompleteCalled(1)
  /\ \E i \in 1..Len(calls[1]) : calls[1][i].outcome = "threw"
  /\ Len(hbWrites[1]) >= 2
  /\ hbWrites[1][1].rejected
  /\ ~hbWrites[1][2].rejected
  /\ heartbeatInterval[1] = "armed"

\* The storage calls a call of kind op makes when none of them fails.
StoreCallsOf(op) == IF op = "emitLog" THEN 1 ELSE 2

\* C10: when a storage call made by emitLog() or complete() has been
\* rejected, that emitLog() or complete() does not return normally, and it
\* makes no storage call beyond its own (none is made again).
C10_StorageFailurePropagates ==
  \A c \in Claimers : \A i \in 1..Len(calls[c]) :
    /\ calls[c][i].storeFailed > 0 => calls[c][i].outcome # "returned"
    /\ calls[c][i].storeCalls <= StoreCallsOf(calls[c][i].op)

\* The statuses a row may take after the one it has.
Follows(from, to) ==
  \/ from = "open" /\ to = "processing"
  \/ from = "processing" /\ to \in {"completed", "failed"}

\* C17: task status lifecycle.  A row is created open and without a run
\* id; its status changes only from open to processing, in the step that
\* gives it its run id, and from processing to completed or failed; a run
\* id once given stays; no row is cancelled, and a row without a run id is
\* open.
C17_RowsWellFormed ==
  \A t \in 1..Len(tasks) :
    /\ tasks[t].status # "cancelled"
    /\ tasks[t].runId = 0 => tasks[t].status = "open"
C17_StatusSteps ==
  /\ Len(tasks') >= Len(tasks)
  /\ \A t \in 1..Len(tasks') :
       IF t > Len(tasks)
         THEN tasks'[t].status = "open" /\ tasks'[t].runId = 0
         ELSE /\ tasks'[t].status # tasks[t].status
                   => Follows(tasks[t].status, tasks'[t].status)
              /\ tasks'[t].runId # tasks[t].runId
                   => /\ tasks[t].runId = 0
                      /\ tasks[t].status = "open"
                      /\ tasks'[t].status = "processing"
              /\ (tasks[t].status = "open" /\ tasks'[t].status = "processing")
                   => tasks'[t].runId # 0
C17_StatusLifecycle == [](C17_RowsWellFormed) /\ [][C17_StatusSteps]_vars

\* The result given to the first complete() call made on agent c.
FirstResult(c) ==
  LET first == CHOOSE i \in 1..Len(calls[c]) :
                 /\ calls[c][i].op = "complete"
                 /\ \A j \in 1..(i - 1) : calls[c][j].op # "complete"
  IN calls[c][first].arg

\* C18: a second complete() is a no-op.  Over a store that does not fail,
\* once complete() has been called on an agent, the status of its task is
\* the one the first call wrote and its run has at most one completion
\* event, however many complete() calls follow.
C18_SecondCompleteIsNoOp ==
  \A c \in Claimers :
    (~storeFaulty /\ CompleteCalled(c))
      => /\ tasks[agent[c].taskId].status = StatusOf(FirstResult(c))
         /\ Cardinality({i \in 1..Len(events) :
                           /\ events[i].runId = agent[c].runId
                           /\ events[i].type = "completion"}) <= 1

\* ----------------------------------------------------- the subscription
RECURSIVE ConcatEvents(_)
ConcatEvents(invs) ==
  IF invs = <<>> THEN <<>>
  ELSE invs[1].events \o ConcatEvents(Tail(invs))

\* The ids the callback has been given so far, in the order given.
Delivered == ConcatEvents(invocations)

\* The ids of the events the store holds for the observed task above the
\* cursor that observe() was given.
ObservedEvents == StoreGetEvents(subOpts.taskId, subOpts.after)

IsPrefix(a, b) == Len(a) <= Len(b) /\ SubSeq(b, 1, Len(a)) = a

\* The invocations that were given a batch.
BatchIndexes == {i \in 1..Len(invocations) : ~invocations[i].error}

\* C3: event ordering and no duplication.  For a subscription started with
\* after = 0, the batches given to the callback, one after the other, are
\* at every moment a prefix of the task's events in the order the store
\* holds them; and over a store that does not fail, with a callback that
\* does not throw at the error it is handed, they come to equal all the
\* task's events unless the subscription is cancelled.
C3_Prefix ==
  (subPc # "idle" /\ subOpts.after = 0) => IsPrefix(Delivered, ObservedEvents)
C3_CaughtUp ==
  \/ subPc = "idle"
  \/ subOpts.after # 0
  \/ cancelled
  \/ storeFaulty
  \/ cbMode = "mayThrowAlways"
  \/ Delivered = ObservedEvents
C3_OrderedNoDuplicates == [](C3_Prefix) /\ <>[](C3_CaughtUp)

\* All events of a run, its completion event included, have been given to
\* a subscription from after = 0, in more than one batch, one batch
\* holding several events.
C3_Witness ==
  /\ subPc # "idle"
  /\ subOpts.after = 0
  /\ ~cancelled
  /\ Delivered = ObservedEvents
  /\ Len(Delivered) >= 3
  /\ events[Len(events)].type = "completion"
  /\ Cardinality(BatchIndexes) >= 2
  /\ \E i \in BatchIndexes : Len(invocations[i].events) >= 2

\* The ids of the events of kind type that the store holds for the run of
\* agent c.
RunEvents(c, type) ==
  {i \in 1..Len(events) :
     events[i].runId = agent[c].runId /\ events[i].type = type}

\* The result given to the complete() call made on agent c.
ResultOf(c) ==
  LET i == CHOOSE i \in 1..Len(calls[c]) : calls[c][i].op = "complete"
  IN calls[c][i].arg

\* The subscription is one from after = 0 on the task of agent c.
ObservesFromStart(c) ==
  subPc # "idle" /\ subOpts.after = 0 /\ subOpts.taskId = agent[c].taskId

\* The completion event has been given to the callback, after every log
\* event of the run.
CompletionDeliveredLast(c) ==
  \E j \in 1..Len(Delivered) :
    /\ Delivered[j] \in RunEvents(c, "completion")
    /\ \A i \in RunEvents(c, "log") : \E k \in 1..(j - 1) : Delivered[k] = i

\* C16: over a store that does not fail, for a run whose emitLog() calls
\* have returned before complete(result) is called: the task's status is
\* result from the call on, the run never has more than one completion
\* event and comes to have one, which the store holds after every log
\* event of the run, one log event per emitLog(); and a subscription from
\* after = 0 that is given the completion event has been given every log
\* event of the run before it, and is given it unless it is cancelled or
\* its callback throws at the error it is handed.
C16_StatusAndOrder ==
  \A c \in Claimers :
    (~storeFaulty /\ CompleteCalled(c))
      => /\ tasks[agent[c].taskId].status = ResultOf(c)
         /\ Cardinality(RunEvents(c, "completion")) <= 1
         /\ Cardinality(RunEvents(c, "log")) = NumCalls(c, "emitLog")
         /\ \A i \in RunEvents(c, "log"), j \in RunEvents(c, "completion") : i < j
         /\ \A j \in 1..Len(Delivered) :
              (ObservesFromStart(c) /\ Delivered[j] \in RunEvents(c, "completion"))
                => CompletionDeliveredLast(c)
C16_Completed ==
  \/ storeFaulty
  \/ ~CompleteCalled(1)
  \/ /\ Cardinality(RunEvents(1, "completion")) = 1
     /\ \/ ~ObservesFromStart(1)
        \/ cancelled
        \/ cbMode = "mayThrowAlways"
        \/ CompletionDeliveredLast(1)
C16_LogsThenCompletion == [](C16_StatusAndOrder) /\ <>[](C16_Completed)

\* Two emitLog() calls and complete("failed") on a run: the status is
\* failed, and a subscription from after = 0 has been given the two log
\* events and then the completion event.
C16_Witness ==
  /\ ~storeFaulty
  /\ CompleteCalled(1)
  /\ tasks[agent[1].taskId].status = "failed"
  /\ Cardinality(RunEvents(1, "log")) = 2
  /\ ObservesFromStart(1)
  /\ ~cancelled
  /\ CompletionDeliveredLast(1)
  /\ Len(Delivered) = 3

\* The id of the last event of the batch given at invocation i.
LastIdOf(i) == invocations[i].events[Len(invocations[i].events)]

\* C21: the cursor is moved to the id of the last event of a batch before
\* the callback is invoked with the batch, whether the callback throws or
\* not; so no event is given to the callback twice, the ids given rise
\* strictly, and the cursor never decreases.
C21_CursorAtInvocation ==
  \A i \in BatchIndexes :
    /\ invocations[i].cursor = LastIdOf(i)
    /\ after >= LastIdOf(i)
C21_NoRedelivery ==
  \A i, j \in 1..Len(Delivered) : i < j => Delivered[i] < Delivered[j]
C21_CursorAdvancesFirst ==
  /\ [](C21_CursorAtInvocation /\ C21_NoRedelivery)
  /\ [][after' >= after]_vars

\* The callback has thrown at a batch, and a later batch has been given
\* to it.
C21_Witness ==
  \E i, j \in BatchIndexes :
    /\ i < j
    /\ invocations[i].threw
    /\ after = LastIdOf(j)

\* The poll that has just ended fetched an empty batch.
EmptyPoll == subPc = "getEvents" /\ subRes.ok /\ subRes.events = <<>>

\* C22: a poll that fetches an empty batch invokes the callback zero
\* times and leaves the cursor as it was; the callback is never given an
\* empty list of events without an error.
C22_NoEmptyBatchGiven ==
  \A i \in 1..Len(invocations) :
    invocations[i].events = <<>> => invocations[i].error
C22_EmptyPollIsSilent ==
  (EmptyPoll /\ subPc' # subPc)
    => /\ invocations' = invocations
       /\ after' = after
       /\ subPc' = "delay"
C22_EmptyBatchNoCallback ==
  [](C22_NoEmptyBatchGiven) /\ [][C22_EmptyPollIsSilent]_vars

\* After a batch has been given to the callback, a poll has fetched an
\* empty batch and the loop is in its delay.
C22_Witness ==
  /\ subPc = "delay"
  /\ subRes.ok
  /\ subRes.events = <<>>
  /\ Len(invocations) = 1
  /\ after = LastIdOf(1)

\* C23: once the unsubscribe handle has been called, the loop starts no
\* getEvents call: all it does is end the round it is in (the getEvents
\* call in flight, then the delay) and leave, which it does.
C23_NoNewPoll ==
  (cancelled /\ subPc' # subPc)
    => \/ subPc = "getEvents" /\ subPc' \in {"delay", "crashed"}
       \/ subPc = "delay" /\ subPc' = "exited"
C23_UnsubscribeEndsLoop ==
  /\ [][C23_NoNewPoll]_vars
  /\ cancelled ~> (subPc \in {"exited", "crashed"})

\* The handle was called while a getEvents call was in flight; the batch
\* of that call was given to the callback, and the loop has left.
C23_Witness ==
  /\ cancelled
  /\ subPc = "exited"
  /\ Len(invocations) >= 1
  /\ invocations[Len(invocations)].afterUnsubscribe

\* C4: cancellation.  No invocation of the callback begins after the
\* unsubscribe handle has been called.
C4_NoCallbackAfterUnsubscribe ==
  \A i \in 1..Len(invocations) : ~invocations[i].afterUnsubscribe

\* The loop of the subscription is running: it awaits getEvents or its delay.
Polling == subPc \in {"getEvents", "delay"}

\* C5: observer error isolation.  Over a store that does not fail, once the
\* callback has thrown at a batch, the subscription keeps polling until it
\* is cancelled, and the next batch given to the callback holds the events
\* that follow the batch it threw at, none left out and none again.
C5_ObserverErrorIsolation ==
  ~storeFaulty =>
    \A k \in BatchIndexes :
      invocations[k].threw =>
        /\ ~cancelled => Polling
        /\ \A j \in BatchIndexes :
             (j > k /\ \A m \in BatchIndexes : ~(k < m /\ m < j))
               => IsPrefix(ConcatEvents(SubSeq(invocations, 1, j)),
                           ObservedEvents)

\* C6: a failure of the callback is never thrown into the polling loop:
\* whatever the callback does, the loop does not end by an error of the
\* callback.
C6_CallbackFailureContained == subErr # "callback"

\* C7: a subscription leaves the polling state only by a call of its
\* unsubscribe handle (so, while not cancelled, it goes on polling).
C7_OnlyUnsubscribeEndsPolling ==
  (subPc # "idle" /\ ~Polling) => cancelled

\* ------------------------------------------------------ the traversal
\* C19: collect.visitNode is called at most once per entity ref, for every
\* follower (so every graph, with cycles or not, with several nodes of a
\* layer asking for the same node or not) and every order in which the
\* functions of a layer go on; and it has been called for exactly the
\* entity refs that visitedNodes holds.
C19_VisitNodeOncePerRef ==
  \A n \in Nodes :
    /\ nodeVisits[n] <= 1
    /\ nodeVisits[n] = 1 <=> n \in visitedNodes

\* A layer holds a node twice, asked for by two nodes of the layer before
\* it; the node lies on a cycle with one of them and has been visited once.
C19_Witness ==
  \E i, j \in 1..Len(currentLayer) :
    LET a == currentLayer[i].node
        b == currentLayer[j].node
    IN /\ i # j
       /\ a.entityRef = b.entityRef
       /\ a.edgeData # b.edgeData
       /\ a.edgeData # 0
       /\ b.edgeData # 0
       /\ a.edgeData \in {follower[a.entityRef][k] :
                             k \in 1..Len(follower[a.entityRef])}
       /\ nodeVisits[a.entityRef] = 1
       /\ LayerDone

\* C20: collect.visitEdge is called once per traversed edge.  At no moment
\* has visitEdge(previousNode, currentNode) been called more often than
\* the follower, visiting previousNode, has asked for currentNode, and
\* when the traversal returns it has been called as often.
C20_VisitEdgeOncePerRequest ==
  \A e \in Nodes \X Nodes :
    /\ edgeVisits[e] <= visitRequests[e]
    /\ travPc = "returned" => edgeVisits[e] = visitRequests[e]

\* ------------------------------------------------- the agent, continued
\* C24: a firing of the heartbeat of an agent without a run id raises an
\* error, issues no heartbeat write, and is the last firing of that agent:
\* once a firing has raised the error there has been one such firing and
\* no write.
C24_MissingRunIdHalts ==
  \A c \in Claimers :
    hbErrors[c] >= 1 => hbErrors[c] = 1 /\ hbWrites[c] = <<>>

\* The setStatus of complete() call i of agent c was rejected.
SetStatusFailed(c, i) ==
  /\ calls[c][i].op = "complete"
  /\ calls[c][i].storeCalls = 1
  /\ calls[c][i].storeFailed = 1

\* complete() has been called on agent c, and the setStatus of every such
\* call was rejected.
OnlyFailedCompletes(c) ==
  /\ CompleteCalled(c)
  /\ \A i \in 1..Len(calls[c]) :
       calls[c][i].op = "complete" => SetStatusFailed(c, i)

\* C26: a complete() whose setStatus is rejected throws and has no other
\* effect: no completion event is emitted or in flight for the run, the
\* status of the task is as it was, and the heartbeat interval stays set.
C26_FailedCompleteHasNoEffect ==
  \A c \in Claimers :
    OnlyFailedCompletes(c)
      => /\ tasks[agent[c].taskId].status = "processing"
         /\ RunEvents(c, "completion") = {}
         /\ floating[c] = <<>>
         /\ heartbeatInterval[c] = "armed"
         /\ \A i \in 1..Len(calls[c]) :
              calls[c][i].op = "complete"
                => /\ calls[c][i].outcome \in {"pending", "threw"}
                   /\ calls[c][i].outcome = "pending"
                        => i = Len(calls[c]) /\ aPc[c] = "setStatus"

\* complete() has thrown the rejection of setStatus, and after that the
\* heartbeat has fired and written.
C26_Witness ==
  /\ OnlyFailedCompletes(1)
  /\ aPc[1] = "ready"
  /\ calls[1][Len(calls[1])].outcome = "threw"
  /\ Len(hbWrites[1]) = 2
  /\ ~hbWrites[1][1].afterComplete
  /\ hbWrites[1][2].afterComplete
  /\ ~hbWrites[1][2].rejected
  /\ heartbeatInterval[1] = "armed"

====
